---- MODULE Spec2Model ----
(***************************************************************************)
(* A model of two programs of the repository:                              *)
(*   - unique-elems/src/main.rs : UniquesInAStream, the streaming          *)
(*     distinct-count estimator (new, thresh, update, to_result);          *)
(*   - src/rabin_karp.rs : rabin_karp and rolling_hash.                    *)
(* Real numbers are exact rationals <<num, den>> with den > 0.  The f64    *)
(* special values that the threshold formula can produce (NaN, +inf, -inf) *)
(* are modelled as tagged values, and the saturating cast `as usize` is    *)
(* modelled on them.                                                       *)
(***************************************************************************)
EXTENDS Integers, Sequences, FiniteSets, TLC

\* ------------------------------------------------------------- bounds
\* Elements of the stream are 0..MaxElem.
MaxElem == 2
\* update is called while stream_size < MaxStream.
MaxStream == 5
\* new is called with a stream_size hint in 0..MaxHint.
MaxHint == 1

\* usize::MAX, the value `+inf as usize` saturates to.  TLC's integers are
\* 32 bits wide; the value is only ever compared with the size of X.
USIZE_MAX == 2147483647

Elems == 0 .. MaxElem

\* rabin_karp is called on texts of 1..MaxTextLen characters.
MaxTextLen == 4
\* The characters of the texts: 'A' and 'C' as `char as usize`.
Sigma == {65, 67}
\* The numbers of segments, the bases b and the moduli q rabin_karp is
\* called with (b = 4, q = 127 and b = 3, q = 7 are those of the tests).
NumSegments == {1, 2}
Bases == {1, 2, 3, 4}
Moduli == {1, 2, 3, 7, 127}

\* ------------------------------------------------------------- rationals
One == <<1, 1>>
Zero == <<0, 1>>

RatLeq(a, b) == a[1] * b[2] <= b[1] * a[2]
RatLess(a, b) == a[1] * b[2] < b[1] * a[2]
RatEq(a, b) == a[1] * b[2] = b[1] * a[2]

\* The outcomes of `self.rng.gen()` (a uniform f64 in [0,1)) that are drawn.
RDraws == {<<0, 1>>, <<1, 2>>, <<3, 4>>}

\* The (eps, delta) pairs new is called with.  new accepts every f64.
\*   eps = 1/10, delta = 1/10 : the configuration of main
\*   eps = 4,    delta = 1/2  : threshold 3, 3, 3, 4, 4, ...
\*   eps = 10,   delta = 1/2  : threshold 1
\*   eps = 0                  : 12 / 0 = +inf
\*   delta = 16, 0, -1/2      : delta outside (0,1)
Configs ==
    { [eps |-> <<1, 10>>, delta |-> <<1, 10>>],
      [eps |-> <<4, 1>>,  delta |-> <<1, 2>>],
      [eps |-> <<10, 1>>, delta |-> <<1, 2>>],
      [eps |-> <<0, 1>>,  delta |-> <<1, 2>>],
      [eps |-> <<4, 1>>,  delta |-> <<16, 1>>],
      [eps |-> <<4, 1>>,  delta |-> <<0, 1>>],
      [eps |-> <<4, 1>>,  delta |-> <<-1, 2>>] }

\* ------------------------------------------------------------- f64::ln
\* LnTable[m] = round(ln(m) * LnScale) for m in 1..16.
LnScale == 100000
LnTable ==
    <<0, 69315, 109861, 138629, 160944, 179176, 194591, 207944,
      219722, 230259, 239790, 248491, 256495, 263906, 270805, 277259>>

Fin(v) == [kind |-> "fin", v |-> v]
NaN == [kind |-> "nan", v |-> 0]
PInf == [kind |-> "pinf", v |-> 0]
NInf == [kind |-> "ninf", v |-> 0]

\* ((8.0 * stream_size) / delta).ln(), scaled by LnScale.
\*   8n/0  is NaN for n = 0 and +inf for n > 0;  ln(+inf) = +inf
\*   8n/d, d < 0, is -0.0 for n = 0 (ln = -inf) and negative for n > 0 (ln = NaN)
\*   8n/d, d > 0, is 0 for n = 0 (ln = -inf)
LnArg(delta, n) ==
    IF delta[1] = 0 THEN (IF n = 0 THEN NaN ELSE PInf)
    ELSE IF delta[1] < 0 THEN (IF n = 0 THEN NInf ELSE NaN)
    ELSE IF n = 0 THEN NInf
    ELSE IF 8 * n * delta[2] = delta[1] THEN Fin(0)
    ELSE Fin(LnTable[8] + LnTable[n] + LnTable[delta[2]] - LnTable[delta[1]])

\* (12.0 / (eps * eps)) * l, as a tagged value whose finite case is the
\* rational <<num, den>> (in units of 1, not of LnScale).
TimesCoeff(eps, l) ==
    LET e2n == eps[1] * eps[1]
        e2d == eps[2] * eps[2]
    IN  IF l.kind = "nan" THEN NaN
        ELSE IF e2n = 0
             THEN (IF l.kind = "pinf" \/ (l.kind = "fin" /\ l.v > 0) THEN PInf
                   ELSE IF l.kind = "ninf" \/ (l.kind = "fin" /\ l.v < 0) THEN NInf
                   ELSE NaN)
        ELSE IF l.kind = "fin" THEN Fin(<<12 * e2d * l.v, e2n * LnScale>>)
        ELSE l

\* x.ceil() as usize : NaN and every value <= 0 give 0, +inf gives usize::MAX.
CeilAsUsize(x) ==
    IF x.kind = "pinf" THEN USIZE_MAX
    ELSE IF x.kind # "fin" THEN 0
    ELSE IF x.v[1] <= 0 THEN 0
    ELSE (x.v[1] + x.v[2] - 1) \div x.v[2]

\* UniquesInAStream::thresh, as a function of the fields it reads.
thresh(e, d, n) == CeilAsUsize(TimesCoeff(e, LnArg(d, n)))

\* ------------------------------------------------------------- state
VARIABLES
    status,       \* "unbuilt", "ready", or "panicked" (update panicked)
    X,            \* self.X
    p,            \* self.p
    stream_size,  \* self.stream_size
    eps,          \* self.eps
    delta,        \* self.delta
    last,         \* the last call and what it computed (history)
    stream,       \* the elements submitted so far, in order (history)
    ins_rate,     \* for x in X: the rate at which x was last accepted (history)
    rk_pc,        \* rabin_karp: "idle", "start", "loop" or "done"
    long_text,    \* rabin_karp's arguments: sequences of character codes,
    segments,     \*   a sequence of such sequences,
    b,            \*   the base
    q,            \*   and the modulus
    b_star,       \* rabin_karp's locals
    segment_hashes,
    positions,
    hash_cur_pattern,
    cur_string,
    i             \* the byte index the loop's iterator yields next (0-based)

est_vars == <<status, X, p, stream_size, eps, delta, last, stream, ins_rate>>
rk_vars == <<rk_pc, long_text, segments, b, q, b_star, segment_hashes,
             positions, hash_cur_pattern, cur_string, i>>
vars == <<est_vars, rk_vars>>

NoRate == Zero

NoCall ==
    [op |-> "none", elem |-> 0, r |-> Zero, Xpre |-> {}, Xmid |-> {},
     ppre |-> One, p1 |-> NoRate, t |-> 0, thinned |-> FALSE, result |-> 0]

Range(s) == {s[idx] : idx \in DOMAIN s}

EstInit ==
    /\ status = "unbuilt"
    /\ X = {}
    /\ p = One
    /\ stream_size = 0
    /\ eps = One
    /\ delta = One
    /\ last = NoCall
    /\ stream = <<>>
    /\ ins_rate = [x \in Elems |-> NoRate]

\* rabin_karp's locals before the call.
RKLocalsInit ==
    /\ b_star = 0
    /\ segment_hashes = <<>>
    /\ positions = <<>>
    /\ hash_cur_pattern = 0
    /\ cur_string = <<>>
    /\ i = 0

\* The estimator's program: rabin_karp is not called.
Init ==
    /\ EstInit
    /\ rk_pc = "idle"
    /\ long_text = <<>>
    /\ segments = <<>>
    /\ b = 1
    /\ q = 1
    /\ RKLocalsInit

\* ------------------------------------------------------------- operations
\* UniquesInAStream::new
new(hint, e, d) ==
    /\ status = "unbuilt"
    /\ status' = "ready"
    /\ X' = {}
    /\ stream_size' = hint
    /\ p' = One
    /\ eps' = e
    /\ delta' = d
    /\ last' = [NoCall EXCEPT !.op = "new"]
    /\ UNCHANGED <<stream, ins_rate>>
    /\ UNCHANGED rk_vars

\* self.X.remove(e); let r = rng.gen(); if r <= self.p() { self.X.insert(e) }
retrial_sticky(S, e, r, rate) == IF RatLeq(r, rate) THEN S \cup {e} ELSE S
retrial_remove_last(S, e, r, rate) ==
    (IF RatLeq(r, rate) THEN S \cup {e} ELSE S) \ {e}
retrial(S, e, r, rate) ==
    IF RatLeq(r, rate) THEN (S \ {e}) \cup {e} ELSE S \ {e}

\* self.X.retain(|_| rand::random()) : every subset is a possible outcome.
retain(S) == SUBSET S

\* self.p() / 2.0
double(rate) == <<rate[1] * 2, rate[2]>>
halve(rate) == <<rate[1], rate[2] * 2>>

\* if self.X.len() == t   (the test that starts the thinning)
thin_needed_geq(S, t) == Cardinality(S) >= t
thin_needed(S, t) == Cardinality(S) = t

\* if self.X.len() == t { panic!(...) }   (the test after the thinning)
must_panic_never(S, t) == FALSE
must_panic(S, t) == Cardinality(S) = t

\* UniquesInAStream::update
update(new_elem, r) ==
    /\ status = "ready"
    /\ stream_size < MaxStream
    /\ LET n1 == stream_size + 1
           Xmid == retrial(X, new_elem, r, p)
           t == thresh(eps, delta, n1)
           call == [NoCall EXCEPT !.op = "update", !.elem = new_elem, !.r = r,
                                  !.Xpre = X, !.Xmid = Xmid, !.ppre = p,
                                  !.p1 = ins_rate[new_elem], !.t = t]
       IN  /\ stream_size' = n1
           /\ stream' = Append(stream, new_elem)
           /\ IF thin_needed(Xmid, t)
              THEN \E kept \in retain(Xmid) :
                     /\ X' = kept
                     /\ p' = halve(p)
                     /\ status' = IF must_panic(kept, t) THEN "panicked" ELSE "ready"
                     /\ last' = [call EXCEPT !.thinned = TRUE]
              ELSE /\ X' = Xmid
                   /\ p' = p
                   /\ status' = "ready"
                   /\ last' = call
           /\ ins_rate' = [x \in Elems |->
                             IF x \notin X' THEN NoRate
                             ELSE IF x = new_elem THEN p
                             ELSE ins_rate[x]]
    /\ UNCHANGED <<eps, delta>>
    /\ UNCHANGED rk_vars

\* (self.X.len() as f64 / self.p) as u64
to_result_value(S, rate) == (Cardinality(S) * rate[2]) \div rate[1]

\* UniquesInAStream::to_result
to_result_mutating ==
    /\ status = "ready"
    /\ last' = [NoCall EXCEPT !.op = "to_result", !.result = to_result_value(X, p)]
    /\ p' = halve(p)
    /\ UNCHANGED <<status, X, stream_size, eps, delta, stream, ins_rate>>
    /\ UNCHANGED rk_vars
to_result ==
    /\ status = "ready"
    /\ last' = [NoCall EXCEPT !.op = "to_result", !.result = to_result_value(X, p)]
    /\ UNCHANGED <<status, X, p, stream_size, eps, delta, stream, ins_rate>>
    /\ UNCHANGED rk_vars

\* UniquesInAStream::thresh, called by the user of the estimator
thresh_call ==
    /\ status = "ready"
    /\ last' = [NoCall EXCEPT !.op = "thresh", !.t = thresh(eps, delta, stream_size)]
    /\ UNCHANGED <<status, X, p, stream_size, eps, delta, stream, ins_rate>>
    /\ UNCHANGED rk_vars

Next ==
    \/ \E hint \in 0 .. MaxHint, c \in Configs : new(hint, c.eps, c.delta)
    \/ \E e \in Elems, r \in RDraws : update(e, r)
    \/ to_result
    \/ thresh_call

Spec == Init /\ [][Next]_vars

\* ------------------------------------------------------------- rabin_karp
\* The strings of length n over Sigma.
Strings(n) == [1 .. n -> Sigma]

\* rolling_hash: chars().fold(0, |acc, x| (acc * b + x) % q)
RECURSIVE rolling_hash(_, _, _)
rolling_hash(string_to_hash, base, modulus) ==
    IF string_to_hash = <<>> THEN 0
    ELSE LET n == Len(string_to_hash)
             acc == rolling_hash(SubSeq(string_to_hash, 1, n - 1), base, modulus)
         IN  (acc * base + string_to_hash[n]) % modulus

\* (1.. segment_length).fold(b, |acc, _x| acc * b % q) after k of its steps
\* b ^ (segment_len - 1) mod q, as the comment on b_star words it: the fold
\* started from 1 instead of b.
RECURSIVE b_star_from_one(_, _, _)
b_star_from_one(base, modulus, k) ==
    IF k = 0 THEN 1
    ELSE (b_star_from_one(base, modulus, k - 1) * base) % modulus

RECURSIVE b_star_fold(_, _, _)
b_star_fold(base, modulus, k) ==
    IF k = 0 THEN base
    ELSE (b_star_fold(base, modulus, k - 1) * base) % modulus

\* The calls of rabin_karp: an ASCII text and a non-empty list of segments
\* of one length L with 1 <= L <= len(text).
InitRK ==
    /\ EstInit
    /\ rk_pc = "start"
    /\ \E n \in 1 .. MaxTextLen :
         /\ long_text \in Strings(n)
         /\ \E L \in 1 .. n, k \in NumSegments :
              segments \in [1 .. k -> Strings(L)]
    /\ b \in Bases
    /\ q \in Moduli
    /\ RKLocalsInit

\* rabin_karp, lines 17-32: everything before the loop.
rk_enter ==
    /\ rk_pc = "start"
    /\ LET segment_length == Len(segments[1])
       IN  /\ b_star' = b_star_fold(b, q, segment_length - 1)
           /\ segment_hashes' =
                [j \in 1 .. Len(segments) |-> rolling_hash(segments[j], b, q)]
           /\ positions' = [j \in 1 .. Len(segments) |-> <<>>]
           /\ hash_cur_pattern' =
                rolling_hash(SubSeq(long_text, 1, segment_length), b, q)
           /\ cur_string' = SubSeq(long_text, 1, segment_length)
           \* char_indices().skip(segment_length)
           /\ i' = segment_length
    /\ rk_pc' = "loop"
    /\ UNCHANGED <<long_text, segments, b, q>>
    /\ UNCHANGED est_vars

\* One iteration of the loop, lines 34-57; the iterator yields (i, char)
\* for i = segment_length .. text_length - 1.
rk_iter ==
    /\ rk_pc = "loop"
    /\ i < Len(long_text)
    /\ LET segment_length == Len(segments[1])
           char == long_text[i + 1]
           s == cur_string[1]
           h1 == (b * hash_cur_pattern + char) % q
       IN  /\ positions' =
                [j \in 1 .. Len(segments) |->
                    IF hash_cur_pattern = segment_hashes[j] /\ cur_string = segments[j]
                    THEN Append(positions[j], i - segment_length)
                    ELSE positions[j]]
           /\ cur_string' = Append(Tail(cur_string), char)
           /\ hash_cur_pattern' = (h1 + q - ((s * b_star) % q)) % q
    /\ i' = i + 1
    /\ UNCHANGED <<rk_pc, long_text, segments, b, q, b_star, segment_hashes>>
    /\ UNCHANGED est_vars

\* The iterator is exhausted: rabin_karp returns positions (line 59).
rk_return ==
    /\ rk_pc = "loop"
    /\ i >= Len(long_text)
    /\ rk_pc' = "done"
    /\ UNCHANGED <<long_text, segments, b, q, b_star, segment_hashes,
                   positions, hash_cur_pattern, cur_string, i>>
    /\ UNCHANGED est_vars

NextRK ==
    \/ rk_enter
    \/ rk_iter
    \/ rk_return

SpecRK == InitRK /\ [][NextRK]_vars

\* ------------------------------------------------------------- properties
\* The configurations new is specified to accept: eps > 0, 0 < delta < 1.
ValidConfig(e, d) == e[1] > 0 /\ d[1] > 0 /\ d[1] < d[2]

RECURSIVE Pow2(_)
Pow2(k) == IF k = 0 THEN 1 ELSE 2 * Pow2(k - 1)

\* rate = 1 / 2^k for some k; at most MaxStream halvings can have happened.
IsInvPow2(rate) == \E k \in 0 .. MaxStream : RatEq(rate, <<1, Pow2(k)>>)

Alternating02(s) ==
    \A idx \in DOMAIN s : s[idx] = (IF idx % 2 = 1 THEN 0 ELSE 2)

\* C1: after every update call that returns normally, the size of the
\* retained set X is strictly smaller than thresh() computed from the
\* processed count as it stands after the call.
C1_SizeBelowThresh ==
    (status = "ready" /\ last.op = "update")
        => Cardinality(X) < thresh(eps, delta, stream_size)

\* The same post-condition for the configurations with eps > 0 and
\* 0 < delta < 1 only.
SizeBelowThreshWhenValid ==
    (status = "ready" /\ last.op = "update" /\ ValidConfig(eps, delta))
        => Cardinality(X) < thresh(eps, delta, stream_size)

C1_Reached ==
    /\ status = "ready" /\ last.op = "update"
    /\ ~ ValidConfig(eps, delta)
    /\ Cardinality(X) >= thresh(eps, delta, stream_size)

\* C2: the sampling rate p is 1 at construction, is always 1 / 2^k for a
\* non-negative integer k, never increases, and the only change any
\* operation makes to it is a division by 2.
C2_RateHalvingOnly ==
    /\ [](status # "unbuilt" => IsInvPow2(p))
    /\ [][ /\ (status = "unbuilt" => RatEq(p', One))
           /\ RatLeq(p', p)
           /\ (RatEq(p', p) \/ RatEq(<<2 * p'[1], p'[2]>>, p)) ]_vars

C2_HalvedTwice == status = "ready" /\ RatEq(p, <<1, 4>>)

\* C3: the element submitted to update is in the retained set right after
\* the remove-and-retrial step if and only if this call's draw r satisfied
\* r <= p, whether or not it was retained before the call; when no thinning
\* follows, the same holds of X after the call.
C3_RetrialNotSticky ==
    last.op = "update" =>
        /\ (last.elem \in last.Xmid) <=> RatLeq(last.r, last.ppre)
        /\ last.Xmid \ {last.elem} = last.Xpre \ {last.elem}
        /\ ~ last.thinned => ((last.elem \in X) <=> RatLeq(last.r, last.ppre))

\* e was retained at rate p1, the rate halved to p2 < p1, e was resubmitted
\* and e is no longer retained.
C3_DroppedOnResubmit ==
    /\ last.op = "update"
    /\ last.elem \in last.Xpre
    /\ RatLess(last.ppre, last.p1)
    /\ ~ last.thinned
    /\ last.elem \notin X

\* C4: update panics exactly when its thinning step ran and kept every
\* element, so that the retained set still has exactly t elements after the
\* thinning; it panics in no other situation, and nothing else panics.
C4_PanicIffThinningKeptAll ==
    /\ status = "panicked" => last.op = "update"
    /\ last.op = "update" =>
         ((status = "panicked") <=>
            /\ Cardinality(last.Xmid) = thresh(eps, delta, stream_size)
            /\ X = last.Xmid)

C4_Panicked ==
    /\ status = "panicked" /\ last.thinned
    /\ X = last.Xmid /\ Cardinality(X) = 3

\* C5: new never returns an estimator for eps <= 0 or delta outside (0,1).
C5_InvalidConfigRejected == status # "unbuilt" => ValidConfig(eps, delta)

\* C6: while the sampling rate is still 1 the retained set is exactly the
\* set of distinct elements submitted so far and to_result returns their
\* number; for the stream 0,2,0,2,... it returns 2.
C6_ExactWhileRateIsOne ==
    (status = "ready" /\ RatEq(p, One)) =>
        /\ X = Range(stream)
        /\ last.op = "to_result" =>
             /\ last.result = Cardinality(Range(stream))
             /\ (Len(stream) >= 2 /\ Alternating02(stream)) => last.result = 2

C6_MainStream ==
    /\ eps = <<1, 10>> /\ delta = <<1, 10>> /\ stream_size = 4
    /\ stream = <<0, 2, 0, 2>>
    /\ last.op = "to_result" /\ last.result = 2

\* C7: to_result returns |X| / p and changes neither X, p nor stream_size,
\* so consecutive to_result calls return the same value.
C7_ToResultPure ==
    [][ last'.op = "to_result" =>
          /\ X' = X /\ p' = p /\ stream_size' = stream_size
          /\ status' = status /\ eps' = eps /\ delta' = delta
          /\ last'.result * p[1] <= Cardinality(X) * p[2]
          /\ (last'.result + 1) * p[1] > Cardinality(X) * p[2]
          /\ last.op = "to_result" => last'.result = last.result ]_vars

C7_Queried ==
    /\ last.op = "to_result" /\ Cardinality(X) = 2
    /\ RatEq(p, <<1, 2>>) /\ last.result = 4

\* C8: whenever the threshold formula is evaluated the processed count is
\* treated as at least 1: update and a direct thresh() call both yield the
\* threshold of max(stream_size, 1).  (Stated for eps > 0, 0 < delta < 1.)
C8_CountAtLeastOne ==
    (ValidConfig(eps, delta) /\ last.op \in {"update", "thresh"}) =>
        last.t = thresh(eps, delta, IF stream_size < 1 THEN 1 ELSE stream_size)

\* C10: an update call thins X (replaces it by a subset of itself) and
\* halves p, once, if and only if X has exactly t elements after the
\* remove-and-retrial step, t being thresh() of the incremented count; in
\* every other update call p is unchanged and X differs from its value
\* before the call at most in the submitted element.
C10_ThinIffAtThresh ==
    last.op = "update" =>
        /\ last.thinned <=>
             (Cardinality(last.Xmid) = thresh(eps, delta, stream_size))
        /\ last.thinned =>
             /\ X \subseteq last.Xmid
             /\ RatEq(<<2 * p[1], p[2]>>, last.ppre)
        /\ ~ last.thinned =>
             /\ RatEq(p, last.ppre)
             /\ X \ {last.elem} = last.Xpre \ {last.elem}
             /\ Cardinality(X) <= Cardinality(last.Xpre) + 1

C10_Thinned ==
    /\ last.op = "update" /\ last.thinned /\ status = "ready"
    /\ Cardinality(last.Xmid) = 3 /\ Cardinality(X) = 1

\* The start indexes (0-based) in 0 ..= len(text) - L at which seg occurs.
Occurrences(text, seg) ==
    {k \in 0 .. Len(text) - Len(seg) : SubSeq(text, k + 1, k + Len(seg)) = seg}

IsAscendingListOf(list, S) ==
    /\ Range(list) = S
    /\ \A m, n \in DOMAIN list : m < n => list[m] < list[n]

\* C9: rabin_karp returns, for every segment j, exactly the ascending list
\* of all start indexes in 0 ..= len(text) - L at which the text equals
\* segment j, the occurrence ending at the last character included.
C9_AllOccurrences ==
    rk_pc = "done" =>
        \A j \in DOMAIN segments :
            /\ j \in DOMAIN positions
            /\ IsAscendingListOf(positions[j], Occurrences(long_text, segments[j]))

\* What rabin_karp returns: the occurrences that start before the last
\* window, in ascending order.
ReturnsOccurrencesBeforeLastWindow ==
    rk_pc = "done" =>
        \A j \in DOMAIN segments :
            IsAscendingListOf(positions[j],
                Occurrences(long_text, segments[j])
                    \ {Len(long_text) - Len(segments[j])})

\* C11: at the start of every iteration of the scanning loop (and when the
\* iterator is exhausted), with i the index the iterator yields, cur_string
\* is the window text[i-L..i] and hash_cur_pattern, which is updated
\* incrementally (times b, plus the incoming character, minus the outgoing
\* character times b_star, mod q), equals rolling_hash(cur_string, b, q)
\* computed from scratch.
C11_RollingHashMatchesWindow ==
    rk_pc = "loop" =>
        LET segment_length == Len(segments[1])
        IN  /\ segment_length <= i /\ i <= Len(long_text)
            /\ cur_string = SubSeq(long_text, i - segment_length + 1, i)
            /\ hash_cur_pattern = rolling_hash(cur_string, b, q)

\* Two incremental updates have been made on a text of distinct windows,
\* with the base and a modulus of the tests.
C11_SlidTwice ==
    /\ rk_pc = "loop" /\ i = 4
    /\ long_text = <<65, 67, 67, 65>> /\ Len(segments[1]) = 2
    /\ b = 4 /\ q = 127
    /\ cur_string = <<67, 65>>
    /\ hash_cur_pattern = (67 * 4 + 65) % 127

====
